---------------------------- MODULE Spec2Model ----------------------------
(***************************************************************************)
(* Model of ali/blake_nightly_data/email_report.py: the regression         *)
(* classifier simple_perf_test, the aggregator build_perf_tests, the       *)
(* renderer build_perf_tests_html and the top-level script.                *)
(*                                                                         *)
(* Arithmetic.  The code computes in binary64 (np.float64).  The model     *)
(* computes the same quantities exactly, as integers scaled by the series  *)
(* length n:  n*mu = Sum,  n*(x - mu) = n*x - Sum,  n^3*sig^2 = the sum of *)
(* the squared scaled deviations.  For the bounded integer samples of the  *)
(* model a binary64 comparison |x - mu| < c*sig can differ from the exact  *)
(* one only when both sides are equal in exact arithmetic and mu is not a  *)
(* binary fraction; there the result depends on rounding inside numpy and  *)
(* is an input of the model (rnd), not a value the model picks.  Samples   *)
(* are integers throughout; series of non-integer samples, whose sums      *)
(* round, are outside the model.                                           *)
(***************************************************************************)
EXTENDS Integers, Sequences, FiniteSets, TLC

VARIABLES
    wtimes,      \* classifier under test: the series handed to simple_perf_test
    rnd,         \* classifier under test: binary64 rounding outcome at exact ties
    res,         \* classifier under test: what simple_perf_test returned or raised
    pc,          \* script position
    hasToday,    \* files_with_date is non-empty
    cases,       \* configured case names, in order
    timers,      \* configured timer names, in order
    runOk,       \* json2status: status[-1] of the cases queried so far
    timeline,    \* json2timeline: series of the (case, timer) pairs queried so far
    i,           \* index of the case being processed
    j,           \* index of the timer being processed
    perfTests,   \* the dictionary built by build_perf_tests
    colorCounter,\* tally of the case being processed
    calls,       \* (case, timer) pairs for which json2timeline/simple_perf_test ran
    raised,      \* exception that escaped, or "none"
    html,        \* (subject, body) returned by build_perf_tests_html
    sent         \* documents handed to html2email, in order

vars == <<wtimes, rnd, res, pc, hasToday, cases, timers, runOk, timeline, i, j,
          perfTests, colorCounter, calls, raised, html, sent>>

classifierVars == <<wtimes, rnd, res>>
pipelineVars == <<pc, hasToday, cases, timers, runOk, timeline, i, j,
                  perfTests, colorCounter, calls, raised, html, sent>>

---------------------------------------------------------------------------
(* Bounds of the model *)

MaxLen == 8
MaxCases == 2
MaxTimers == 2

Samples == {10, 11, 20, 30}
CaseNames == {"ant_ml", "ant_muelu"}
TimerNames == {"Total Time", "Total Fill Time"}

SeqsUpTo(S, n) == UNION {[1..k -> S] : k \in 0..n}

---------------------------------------------------------------------------
(* simple_perf_test *)

RECURSIVE SeqSum(_)
SeqSum(s) == IF s = <<>> THEN 0 ELSE Head(s) + SeqSum(Tail(s))

Abs(x) == IF x < 0 THEN -x ELSE x

RECURSIVE Gcd(_, _)
Gcd(a, b) == IF b = 0 THEN a ELSE Gcd(b, a % b)

RECURSIVE IsPowerOfTwo(_)
IsPowerOfTwo(q) == IF q = 1 THEN TRUE
                   ELSE IF q % 2 = 1 THEN FALSE ELSE IsPowerOfTwo(q \div 2)

\* Sum/n is a binary fraction, so np.mean, the deviations and their squares
\* are all computed without rounding.
Binary64Exact(Sum, n) == IsPowerOfTwo(n \div Gcd(n, Abs(Sum)))

\* Mutant: the second comparison reads wt[-1] again
At_AlwaysLast(wt, k) == wt[Len(wt)]

\* wt[-k] of a Python sequence
At(wt, k) == wt[Len(wt) + 1 - k]

\* Mutant: the aggregator passes a coefficient of one standard deviation
ThresholdCoeff_One == 2 - 1

\* simple_perf_test(wtimes, 2.0)
ThresholdCoeff == 2

NoRounding == [last |-> FALSE, prev |-> FALSE]
Roundings == [last : BOOLEAN, prev : BOOLEAN]

Mean(wt) == [num |-> SeqSum(wt), den |-> Len(wt)]

\* n * (x - mu), with wtSum = n * mu
ScaledDev(n, wtSum, x) == n * x - wtSum

\* Mutant: the sample standard deviation (ddof = 1)
Std_Sample(wt) ==
    LET n     == Len(wt)
        wtSum == SeqSum(wt)
    IN  [sqnum |-> SeqSum([k \in 1..n |-> ScaledDev(n, wtSum, wt[k]) * ScaledDev(n, wtSum, wt[k])]),
         sqden |-> n * n * (n - 1)]

\* np.std: sqrt(mean(abs(wt - mean(wt))**2)), held as its square sqnum/sqden
Std(wt) ==
    LET n     == Len(wt)
        wtSum == SeqSum(wt)
    IN  [sqnum |-> SeqSum([k \in 1..n |-> ScaledDev(n, wtSum, wt[k]) * ScaledDev(n, wtSum, wt[k])]),
         sqden |-> n * n * n]

\* The two sides of abs(x - mu) < stdCoeff*sig, squared and cleared of
\* denominators: (n*(x - mu))^2 * sqden  and  stdCoeff^2 * sqnum * n^2
DevSide(mu, sig, x) == ScaledDev(mu.den, mu.num, x) * ScaledDev(mu.den, mu.num, x) * sig.sqden
StdSide(mu, sig, stdCoeff) == stdCoeff * stdCoeff * sig.sqnum * mu.den * mu.den

\* abs(x - mu) = stdCoeff*sig in exact arithmetic, with mu not a binary fraction:
\* the binary64 comparison is decided by rounding
RoundingDecides(mu, sig, x, stdCoeff) ==
    /\ DevSide(mu, sig, x) = StdSide(mu, sig, stdCoeff)
    /\ ~Binary64Exact(mu.num, mu.den)

\* Mutant: the comparison is <= instead of <
WithinBound_NonStrict(mu, sig, x, stdCoeff, tie) ==
    DevSide(mu, sig, x) <= StdSide(mu, sig, stdCoeff)

\* abs(x - mu) < stdCoeff*sig
WithinBound(mu, sig, x, stdCoeff, tie) ==
    IF DevSide(mu, sig, x) # StdSide(mu, sig, stdCoeff)
    THEN DevSide(mu, sig, x) < StdSide(mu, sig, stdCoeff)
    ELSE IF Binary64Exact(mu.num, mu.den) THEN FALSE
    ELSE tie

Raise(e) == [exc |-> e, status |-> "none", measured |-> 0,
             mean |-> [num |-> 0, den |-> 1], std |-> [sqnum |-> 0, sqden |-> 1]]

Return(status, measured, mu, sig) ==
    [exc |-> "none", status |-> status, measured |-> measured, mean |-> mu, std |-> sig]

simple_perf_test(wtimes_, stdCoeff, r) ==
    LET wt  == wtimes_
        mu  == Mean(wt)
        sig == Std(wt)
    IN  IF Len(wt) = 0 THEN Raise("IndexError")
        ELSE IF WithinBound(mu, sig, At(wt, 1), stdCoeff, r.last)
             THEN Return("pass", At(wt, 1), mu, sig)
        ELSE IF Len(wt) < 2 THEN Raise("IndexError")
        ELSE IF WithinBound(mu, sig, At(wt, 2), stdCoeff, r.prev)
             THEN Return("warn", At(wt, 1), mu, sig)
        ELSE Return("fail", At(wt, 1), mu, sig)

\* The roundings that can decide a comparison of simple_perf_test on wt
RoundingsOf(wt, stdCoeff) ==
    LET mu  == Mean(wt)
        sig == Std(wt)
    IN  {r \in Roundings :
            /\ r.last => Len(wt) >= 1 /\ RoundingDecides(mu, sig, At(wt, 1), stdCoeff)
            /\ r.prev => Len(wt) >= 2 /\ RoundingDecides(mu, sig, At(wt, 2), stdCoeff)
            /\ (Len(wt) >= 2 /\ At(wt, 1) = At(wt, 2)) => r.last = r.prev}

NoResult == Raise("not called")

---------------------------------------------------------------------------
(* Python dictionaries: insertion-ordered keys, assignment to a present key *)
(* keeps its position                                                       *)

Range(s) == {s[k] : k \in 1..Len(s)}

EmptyDict == [keys |-> <<>>, val |-> <<>>]

\* Mutant: a new key goes to the front
DictSet_Prepend(d, k, v) ==
    [keys |-> IF k \in Range(d.keys) THEN d.keys ELSE <<k>> \o d.keys,
     val  |-> (k :> v) @@ d.val]

DictSet(d, k, v) ==
    [keys |-> IF k \in Range(d.keys) THEN d.keys ELSE Append(d.keys, k),
     val  |-> (k :> v) @@ d.val]

---------------------------------------------------------------------------
(* build_perf_tests *)

nps == 384

\* name = case + '_np' + str(nps)
CaseKey(case) == <<case, "_np", nps>>

colorMap == [pass |-> "green", warn |-> "yellow", fail |-> "red"]

ZeroCounter == [green |-> 0, yellow |-> 0, red |-> 0]

\* Series json2timeline may hand back for a (case, timer) pair
TimelineChoices == {<<10, 30>>, <<10, 10, 10, 10, 15>>, <<10, 10>>, <<10>>}

\* json2status(files, case, nps): status[-1], the same at every query of a run
json2status(case, ok) == IF case \in DOMAIN runOk THEN runOk[case] ELSE ok

\* json2timeline(files, case, nps, timer, False): wtimes, the same at every query
json2timeline(case, timer, series) ==
    IF <<case, timer>> \in DOMAIN timeline THEN timeline[<<case, timer>>] ELSE series

\* testDict after lines 54-59
PassedRecord == [runTest |-> "Passed", runTestColor |-> "green", timers |-> EmptyDict]

\* Mutant: the failed case keeps a green aggregate color
FailedRecord_Green == [runTest |-> "Failed", runTestColor |-> "red",
                       perfTests |-> [text |-> "Failed"], perfTestsColor |-> "green"]

\* testDict after lines 84-87
FailedRecord == [runTest |-> "Failed", runTestColor |-> "red",
                 perfTests |-> [text |-> "Failed"], perfTestsColor |-> "red"]

\* timerDict after lines 66-70
TimerRecord(r) == [measured |-> r.measured, mean |-> r.mean, std |-> r.std,
                   perfTestColor |-> colorMap[r.status]]

\* '{}/{}/{}'.format(green, yellow, red)
TallyText(cc) == [text |-> "counts", green |-> cc.green, yellow |-> cc.yellow, red |-> cc.red]

\* lines 75-80
TallyColor(cc) == IF cc.red # 0 THEN "red"
                  ELSE IF cc.yellow # 0 THEN "yellow"
                  ELSE "green"

\* Mutant: every timer is counted as a pass
Count_AlwaysGreen(cc, color) == [cc EXCEPT !["green"] = @ + 1]

\* colorCounter[color] = colorCounter[color] + 1
Count(cc, color) == [cc EXCEPT ![color] = @ + 1]

\* the script: today's json is missing, the error email goes out and the run exits
FailedSubject == "[ALIPerfTestsFailed] Albany Land Ice Performance Tests"
PassedSubject == "[ALIPerfTestsPassed] Albany Land Ice Performance Tests"

ErrorDocument == [subject |-> FailedSubject,
                  body    |-> [error |-> "Today's json file doesn't exist!"],
                  to      |-> "error recipients"]

InitPipeline ==
    /\ wtimes = <<>> /\ rnd = NoRounding /\ res = NoResult
    /\ pc = "start"
    /\ hasToday \in BOOLEAN
    /\ cases \in SeqsUpTo(CaseNames, MaxCases)
    /\ timers \in SeqsUpTo(TimerNames, MaxTimers)
    /\ runOk = <<>> /\ timeline = <<>>
    /\ i = 0 /\ j = 0
    /\ perfTests = EmptyDict
    /\ colorCounter = ZeroCounter
    /\ calls = {} /\ raised = "none" /\ html = <<>> /\ sent = <<>>

\* lines 253-264
MissingToday ==
    /\ pc = "start" /\ ~hasToday
    /\ sent' = Append(sent, ErrorDocument)
    /\ pc' = "exited"
    /\ UNCHANGED <<classifierVars, hasToday, cases, timers, runOk, timeline, i, j,
                   perfTests, colorCounter, calls, raised, html>>

\* lines 253, 280, 44-45
StartAggregate ==
    /\ pc = "start" /\ hasToday
    /\ perfTests' = EmptyDict
    /\ i' = 1
    /\ pc' = "cases"
    /\ UNCHANGED <<classifierVars, hasToday, cases, timers, runOk, timeline, j,
                   colorCounter, calls, raised, html, sent>>

\* lines 46-59: the latest run of the case passed
CaseRunPassed ==
    /\ pc = "cases" /\ i <= Len(cases)
    /\ \E ok \in BOOLEAN :
          /\ json2status(cases[i], ok)
          /\ runOk' = (cases[i] :> TRUE) @@ runOk
    /\ perfTests' = DictSet(perfTests, CaseKey(cases[i]), PassedRecord)
    /\ colorCounter' = ZeroCounter
    /\ j' = 1
    /\ pc' = "timers"
    /\ UNCHANGED <<classifierVars, hasToday, cases, timers, timeline, i,
                   calls, raised, html, sent>>

\* lines 46-53, 83-87: the latest run of the case failed
CaseRunFailed ==
    /\ pc = "cases" /\ i <= Len(cases)
    /\ \E ok \in BOOLEAN :
          /\ ~json2status(cases[i], ok)
          /\ runOk' = (cases[i] :> FALSE) @@ runOk
    /\ perfTests' = DictSet(perfTests, CaseKey(cases[i]), FailedRecord)
    /\ i' = i + 1
    /\ UNCHANGED <<classifierVars, pc, hasToday, cases, timers, timeline, j,
                   colorCounter, calls, raised, html, sent>>

\* testDict['timers'][timer] = timerDict
StoreTimer(d, name, timer, rec) ==
    LET testDict == d.val[name]
    IN  DictSet(d, name, [testDict EXCEPT !.timers = DictSet(@, timer, rec)])

\* lines 60-71: one timer is classified
TimerClassified ==
    /\ pc = "timers" /\ j <= Len(timers)
    /\ \E series \in TimelineChoices :
          LET wt == json2timeline(cases[i], timers[j], series)
          IN  \E r \in RoundingsOf(wt, ThresholdCoeff) :
                 LET result == simple_perf_test(wt, ThresholdCoeff, r)
                 IN  /\ result.exc = "none"
                     /\ timeline' = (<<cases[i], timers[j]>> :> wt) @@ timeline
                     /\ perfTests' = StoreTimer(perfTests, CaseKey(cases[i]), timers[j],
                                                TimerRecord(result))
                     /\ colorCounter' = Count(colorCounter, colorMap[result.status])
    /\ calls' = calls \cup {<<cases[i], timers[j]>>}
    /\ j' = j + 1
    /\ UNCHANGED <<classifierVars, pc, hasToday, cases, timers, runOk, i,
                   raised, html, sent>>

\* lines 60-66: simple_perf_test raises and nothing catches it
TimerRaises ==
    /\ pc = "timers" /\ j <= Len(timers)
    /\ \E series \in TimelineChoices :
          LET wt == json2timeline(cases[i], timers[j], series)
          IN  \E r \in RoundingsOf(wt, ThresholdCoeff) :
                 LET result == simple_perf_test(wt, ThresholdCoeff, r)
                 IN  /\ result.exc # "none"
                     /\ timeline' = (<<cases[i], timers[j]>> :> wt) @@ timeline
                     /\ raised' = result.exc
    /\ calls' = calls \cup {<<cases[i], timers[j]>>}
    /\ pc' = "crashed"
    /\ UNCHANGED <<classifierVars, hasToday, cases, timers, runOk, i, j,
                   perfTests, colorCounter, html, sent>>

\* testDict['perfTests'], testDict['perfTestsColor']
StoreTally(d, name, cc) ==
    DictSet(d, name, [perfTests |-> TallyText(cc), perfTestsColor |-> TallyColor(cc)]
                     @@ d.val[name])

\* lines 73-80: the timers of the case are done
FinishCase ==
    /\ pc = "timers" /\ j > Len(timers)
    /\ perfTests' = StoreTally(perfTests, CaseKey(cases[i]), colorCounter)
    /\ i' = i + 1
    /\ pc' = "cases"
    /\ UNCHANGED <<classifierVars, hasToday, cases, timers, runOk, timeline, j,
                   colorCounter, calls, raised, html, sent>>

\* line 89, line 280
ReturnPerfTests ==
    /\ pc = "cases" /\ i > Len(cases)
    /\ pc' = "render"
    /\ UNCHANGED <<classifierVars, hasToday, cases, timers, runOk, timeline, i, j,
                   perfTests, colorCounter, calls, raised, html, sent>>

---------------------------------------------------------------------------
(* build_perf_tests_html *)

\* lines 160-166: one row of the status table
StatusRow(name, info) ==
    [name |-> name, runTestColor |-> info.runTestColor, runTest |-> info.runTest,
     perfTestsColor |-> info.perfTestsColor, perfTests |-> info.perfTests]

\* lines 159-170
StatusTab(d) == [k \in 1..Len(d.keys) |-> StatusRow(d.keys[k], d.val[d.keys[k]])]

\* lines 196-203: one row of a timer table
TimerRow(timer, timerInfo) ==
    [timer |-> timer, perfTestColor |-> timerInfo.perfTestColor,
     measured |-> timerInfo.measured, mean |-> timerInfo.mean, std |-> timerInfo.std]

\* lines 176-211: the section of one case
TimerTab(name, info) ==
    IF info.runTest = "Failed"
    THEN [name |-> name, notice |-> "test failed..."]
    ELSE [name |-> name,
          rows |-> [k \in 1..Len(info.timers.keys) |->
                       TimerRow(info.timers.keys[k], info.timers.val[info.timers.keys[k]])]]

\* lines 175-211
TimerTabs(d) == [k \in 1..Len(d.keys) |-> TimerTab(d.keys[k], d.val[d.keys[k]])]

\* Mutant: only a failed run sets the flag, a red timer does not
CaseSetsFailed_RunOnly(info) == info.runTest = "Failed"

\* lines 176-177, 206-207: what one case contributes to subjectTestsFailed
CaseSetsFailed(info) ==
    IF info.runTest = "Failed" THEN TRUE
    ELSE \E k \in 1..Len(info.timers.keys) :
            info.timers.val[info.timers.keys[k]].perfTestColor = "red"

\* lines 173-211
subjectTestsFailed(d) == \E k \in 1..Len(d.keys) : CaseSetsFailed(d.val[d.keys[k]])

\* lines 212-216
Subject(failed) == IF failed THEN FailedSubject ELSE PassedSubject

build_perf_tests_html(d) ==
    [subject |-> Subject(subjectTestsFailed(d)),
     body    |-> [statusTab |-> StatusTab(d), timerTabs |-> TimerTabs(d)]]

\* line 285
Render ==
    /\ pc = "render"
    /\ html' = build_perf_tests_html(perfTests)
    /\ pc' = "send"
    /\ UNCHANGED <<classifierVars, hasToday, cases, timers, runOk, timeline, i, j,
                   perfTests, colorCounter, calls, raised, sent>>

\* line 290
SendReport ==
    /\ pc = "send"
    /\ sent' = Append(sent, [subject |-> html.subject, body |-> html.body,
                             to |-> "recipients"])
    /\ pc' = "done"
    /\ UNCHANGED <<classifierVars, hasToday, cases, timers, runOk, timeline, i, j,
                   perfTests, colorCounter, calls, raised, html>>

Next ==
    \/ MissingToday
    \/ StartAggregate
    \/ CaseRunPassed
    \/ CaseRunFailed
    \/ TimerClassified
    \/ TimerRaises
    \/ FinishCase
    \/ ReturnPerfTests
    \/ Render
    \/ SendReport

Spec == InitPipeline /\ [][Next]_vars

---------------------------------------------------------------------------
(* The classifier on its own: any series, one call *)

PipelineIdle ==
    /\ pc = "idle" /\ hasToday = FALSE /\ cases = <<>> /\ timers = <<>>
    /\ runOk = <<>> /\ timeline = <<>> /\ i = 0 /\ j = 0
    /\ perfTests = [keys |-> <<>>, val |-> <<>>]
    /\ colorCounter = [green |-> 0, yellow |-> 0, red |-> 0]
    /\ calls = {} /\ raised = "none" /\ html = <<>> /\ sent = <<>>

InitClassifier ==
    /\ wtimes \in SeqsUpTo(Samples, MaxLen)
    /\ rnd = NoRounding
    /\ res = NoResult
    /\ PipelineIdle

Classify ==
    /\ res = NoResult
    /\ \E r \in RoundingsOf(wtimes, ThresholdCoeff) :
          /\ rnd' = r
          /\ res' = simple_perf_test(wtimes, ThresholdCoeff, r)
    /\ UNCHANGED <<wtimes, pipelineVars>>

NextClassifier == Classify

SpecClassifier == InitClassifier /\ [][NextClassifier]_vars

---------------------------------------------------------------------------
(* Claims about simple_perf_test, checked under SpecClassifier *)

Classified == res # NoResult

Flat(wt) == \A k \in 1..Len(wt) : wt[k] = wt[1]

\* Sum of the squares of the samples
RECURSIVE SumSq(_)
SumSq(s) == IF s = <<>> THEN 0 ELSE Head(s) * Head(s) + SumSq(Tail(s))

\* n^2 times the population variance of wt, as n*sum(x^2) - (sum x)^2
PopVarScaled(wt) == Len(wt) * SumSq(wt) - SeqSum(wt) * SeqSum(wt)

\* |x - mean| < 2*std over the whole of wt, squared and scaled by n^2; a tie in
\* exact arithmetic is 'not below' unless binary64 rounding (tie) decided it
RuleBelow(wt, x, tie) ==
    LET d == Len(wt) * x - SeqSum(wt)
    IN  \/ d * d < 4 * PopVarScaled(wt)
        \/ d * d = 4 * PopVarScaled(wt) /\ tie

RuleStatus(wt, r) ==
    IF RuleBelow(wt, wt[Len(wt)], r.last) THEN "pass"
    ELSE IF RuleBelow(wt, wt[Len(wt) - 1], r.prev) THEN "warn"
    ELSE "fail"

\* C1: for every series of at least 2 samples and coefficient 2.0 the call
\* returns, the measured value is series[-1], mean and std are the population
\* mean and standard deviation of the whole series (last sample included), and
\* the status is pass if |series[-1] - mean| < 2*std, else warn if
\* |series[-2] - mean| < 2*std, else fail, both comparisons strict.  (rnd is
\* FALSE except where a comparison is an exact tie that binary64 rounding
\* decides.)
C1_ClassifyRule ==
    (Classified /\ Len(wtimes) >= 2) =>
        /\ res.exc = "none"
        /\ res.measured = wtimes[Len(wtimes)]
        /\ res.mean.num = SeqSum(wtimes) /\ res.mean.den = Len(wtimes)
        /\ res.std.sqnum * Len(wtimes) * Len(wtimes)
              = PopVarScaled(wtimes) * res.std.sqden
        /\ res.status = RuleStatus(wtimes, rnd)

\* C1 witness: a warn decided by the second-to-last sample of a series on
\* which no comparison is a tie
C1_Witness ==
    /\ Classified /\ Len(wtimes) >= 6 /\ res.status = "warn"
    /\ ~RuleBelow(wtimes, wtimes[Len(wtimes)], TRUE)
    /\ RuleBelow(wtimes, wtimes[Len(wtimes) - 1], FALSE)

SeriesC8 == <<10, 10, 10, 10, 10, 10, 10, 30>>

\* C8, as stated: the series [10,10,10,10,10,10,10,30] is classified fail
C8_Original == (Classified /\ wtimes = SeriesC8) => res.status = "fail"

\* C8, amended: on [10,10,10,10,10,10,10,30] (mean 100/8, variance 350/8) the
\* last sample is not within the bound, 17.5^2 >= 4 * 43.75, the second-to-last
\* is, 2.5^2 < 4 * 43.75, and the status is warn
C8_SpikeIsWarn ==
    (Classified /\ wtimes = SeriesC8) =>
        /\ res.mean = [num |-> 100, den |-> 8]
        /\ 8 * 30 - 100 = 140 /\ 140 * 140 >= 4 * PopVarScaled(SeriesC8)
        /\ 8 * 10 - 100 = -20 /\ 20 * 20 < 4 * PopVarScaled(SeriesC8)
        /\ res.status = "warn"

C8_Witness == Classified /\ wtimes = SeriesC8 /\ res.exc = "none"

\* C9: a series of at least 2 identical samples has std 0 and deviation 0 and is
\* classified fail, never pass or warn.  (The samples are integers: the mean of
\* n equal integers is computed without rounding, so std and the deviation are
\* exactly 0 and both strict comparisons are 0 < 0.)
C9_FlatFails ==
    (Classified /\ Len(wtimes) >= 2 /\ Flat(wtimes)) =>
        /\ res.std.sqnum = 0
        /\ res.mean.den * res.measured = res.mean.num
        /\ res.status = "fail"

C9_Witness == Classified /\ wtimes = <<10, 10, 10, 10, 10>> /\ res.status = "fail"

---------------------------------------------------------------------------
(* Claims about the aggregator, the renderer and the script, checked under Spec *)

Keys == Range(perfTests.keys)
Info(name) == perfTests.val[name]

\* the case has been processed to the end and its run had passed
Tallied(name) ==
    /\ name \in Keys
    /\ Info(name).runTest = "Passed"
    /\ "perfTestsColor" \in DOMAIN Info(name)

TimerColors(name) ==
    {Info(name).timers.val[t].perfTestColor : t \in Range(Info(name).timers.keys)}

AnyRed ==
    \E name \in Keys :
        \/ Info(name).perfTestsColor = "red"
        \/ "timers" \in DOMAIN Info(name) /\ "red" \in TimerColors(name)

\* C2: the rendered subject carries the failed tag iff some case's aggregate
\* color or some timer's color is red anywhere in the report, and the passed
\* tag otherwise (so an empty report is tagged passed)
C2_SubjectTag ==
    pc \in {"send", "done"} =>
        html.subject = IF AnyRed THEN FailedSubject ELSE PassedSubject

\* C2 witness: a report in which every run passed is tagged failed for a red timer
C2_Witness ==
    /\ pc = "send" /\ html.subject = FailedSubject
    /\ Keys # {} /\ \A name \in Keys : Info(name).runTest = "Passed"

\* C3, as stated: a timer whose series has fewer than 2 samples does not abort
\* the aggregation; no exception escapes
C3_TimerErrorIsolated ==
    (\E p \in DOMAIN timeline : Len(timeline[p]) < 2) =>
        pc # "crashed" /\ raised = "none"

Ended == pc \in {"done", "exited", "crashed"}

\* C4, as stated: every run ends with exactly one document dispatched; the
\* fixed error document, with no aggregation, when today's file is missing,
\* and otherwise the document rendered from the aggregated report
C4_ExactlyOneDocument ==
    Ended =>
        /\ Len(sent) = 1
        /\ ~hasToday => sent[1] = ErrorDocument /\ calls = {} /\ perfTests = EmptyDict
        /\ hasToday => sent[1].subject = html.subject /\ sent[1].body = html.body

TimersWith(name, color) ==
    {t \in Range(Info(name).timers.keys) : Info(name).timers.val[t].perfTestColor = color}

PositionsWith(name, color) ==
    {k \in 1..Len(timers) : Info(name).timers.val[timers[k]].perfTestColor = color}

ColorRule(name) ==
    Info(name).perfTestsColor =
        IF Info(name).perfTests.red > 0 THEN "red"
        ELSE IF Info(name).perfTests.yellow > 0 THEN "yellow"
        ELSE "green"

\* C5, as stated: for every sequence of timer names the tally of a case whose
\* run passed counts the case's timer entries with status pass, warn and fail
C5_Original ==
    \A name \in Keys : Tallied(name) =>
        /\ Info(name).perfTests.green  = Cardinality(TimersWith(name, "green"))
        /\ Info(name).perfTests.yellow = Cardinality(TimersWith(name, "yellow"))
        /\ Info(name).perfTests.red    = Cardinality(TimersWith(name, "red"))
        /\ ColorRule(name)

Distinct(s) == \A a, b \in 1..Len(s) : s[a] = s[b] => a = b

\* C5, amended: the tally counts the configured timer positions classified
\* pass, warn and fail, which is the number of timer entries with that status
\* when the configured names are pairwise distinct; the aggregate color is red
\* if the fail count is non-zero, else yellow if the warn count is, else green
C5_TallyCountsPositions ==
    \A name \in Keys : Tallied(name) =>
        /\ Info(name).perfTests.green  = Cardinality(PositionsWith(name, "green"))
        /\ Info(name).perfTests.yellow = Cardinality(PositionsWith(name, "yellow"))
        /\ Info(name).perfTests.red    = Cardinality(PositionsWith(name, "red"))
        /\ Distinct(timers) =>
              /\ Info(name).perfTests.green  = Cardinality(TimersWith(name, "green"))
              /\ Info(name).perfTests.yellow = Cardinality(TimersWith(name, "yellow"))
              /\ Info(name).perfTests.red    = Cardinality(TimersWith(name, "red"))
        /\ ColorRule(name)

C5_Witness ==
    \E name \in Keys :
        /\ Tallied(name) /\ Distinct(timers)
        /\ Info(name).perfTests.green = 1 /\ Info(name).perfTests.yellow = 1
        /\ Info(name).perfTestsColor = "yellow"

\* C6: a case whose latest run failed is recorded as 'Failed' with aggregate
\* color red and no timer entries, whatever timers are configured, and neither
\* json2timeline nor simple_perf_test is invoked for it
C6_FailedCaseRecord ==
    \A c \in DOMAIN runOk : ~runOk[c] =>
        /\ CaseKey(c) \in Keys
        /\ DOMAIN Info(CaseKey(c)) = {"runTest", "runTestColor", "perfTests", "perfTestsColor"}
        /\ Info(CaseKey(c)).runTest = "Failed"
        /\ Info(CaseKey(c)).runTestColor = "red"
        /\ Info(CaseKey(c)).perfTests.text = "Failed"
        /\ Info(CaseKey(c)).perfTestsColor = "red"
        /\ \A t \in TimerNames : <<c, t>> \notin calls /\ <<c, t>> \notin DOMAIN timeline

C6_Witness ==
    /\ pc = "done" /\ Len(timers) = 2
    /\ \E c \in DOMAIN runOk : ~runOk[c] /\ Info(CaseKey(c)).runTest = "Failed"

ConfiguredKeys == [k \in 1..Len(cases) |-> CaseKey(cases[k])]

RECURSIVE FirstOccurrences(_)
FirstOccurrences(s) ==
    IF s = <<>> THEN <<>>
    ELSE LET front == FirstOccurrences(SubSeq(s, 1, Len(s) - 1))
         IN  IF s[Len(s)] \in Range(front) THEN front ELSE Append(front, s[Len(s)])

\* C7: whatever the run outcomes, the report has one entry per configured case
\* key in the configured order, the status table and the per-case sections
\* list the cases in that order, and a failed case does not stop the cases
\* configured after it
C7_ConfiguredOrder ==
    /\ pc = "cases" =>
          perfTests.keys = FirstOccurrences(SubSeq(ConfiguredKeys, 1, i - 1))
    /\ pc \in {"render", "send", "done"} =>
          perfTests.keys = FirstOccurrences(ConfiguredKeys)
    /\ pc \in {"send", "done"} =>
          /\ [k \in 1..Len(html.body.statusTab) |-> html.body.statusTab[k].name]
                = perfTests.keys
          /\ [k \in 1..Len(html.body.timerTabs) |-> html.body.timerTabs[k].name]
                = perfTests.keys

C7_Witness ==
    /\ pc = "done" /\ Len(cases) = 2 /\ cases[1] # cases[2]
    /\ ~runOk[cases[1]] /\ runOk[cases[2]]
    /\ Len(sent[1].body.statusTab) = 2

=============================================================================
